---- MODULE Spec2Model ----
(***************************************************************************)
(* A model of the StuntMan trading service: the TradingClient of           *)
(* trading_client.py (order placement behind the risk checks, cancels,     *)
(* position closes, account refresh, trading controls, the market data     *)
(* cache, the event bus) and the composite endpoints of api.py             *)
(* (POST /orders, POST /signals/execute, emergency stop).                  *)
(*                                                                         *)
(* Every operation is a pure operator over a context record c: the fields  *)
(* of the TradingClient plus what the operation lets its caller observe    *)
(* (the Broker Link calls it made, whether it raised, what it returned).   *)
(* An action applies one operator to the current state and keeps the       *)
(* fields; a property of an operation is stated of the operator's result   *)
(* in every reachable state, for every input.  The Broker Link is the      *)
(* environment: the k-th call an operation makes succeeds iff v[k].        *)
(***************************************************************************)
EXTENDS Integers, Sequences, FiniteSets, TLC

VARIABLES client, connected, trading_enabled, daily_pnl, orders, positions,
          market_data, callbacks, account_info, pending

vars ==
    <<client, connected, trading_enabled, daily_pnl, orders, positions,
      market_data, callbacks, account_info, pending>>

(***************************************************************************)
(* Bounds of the model and the configuration.                              *)
(***************************************************************************)
\* config.trading.max_contracts: int(os.getenv("MAX_CONTRACTS", "5"))
MaxContracts == 5
\* config.trading.max_daily_loss: float(os.getenv("MAX_DAILY_LOSS", "1500"))
MaxDailyLoss == 1500
\* The Order Book holds at most this many orders in the model.
MaxOrders == 2
\* At most this many observers are registered on the event bus at a time.
MaxObservers == 2
\* The place_order calls that wait for the venue's answer at one time.
MaxPending == 1

Symbols == {"ESH5", "NQH5"}
Sides == {"BUY", "SELL"}
OrderTypes == {"MARKET", "LIMIT", "STOP", "STOP_LIMIT"}

\* Optional[float]: None is the empty sequence, a value p is <<p>>.
None == <<>>
Some(x) == <<x>>

\* Quantities a caller asks for: below the cap, at it, above it.
Quantities == {1, MaxContracts, MaxContracts + 1}
\* Daily PnL figures the venue reports: past the loss cap, exactly at it, flat.
PnlValues == {-(MaxDailyLoss + 1), -MaxDailyLoss, 0}
\* An operation makes at most this many Broker Link calls (cancel-all plus
\* one close per symbol).
MaxCalls == Cardinality(Symbols) + 1
VenueOutcomes == [1..MaxCalls -> BOOLEAN]
\* The outcomes that differ in the first n calls.
Outcomes(n) == {v \in VenueOutcomes : \A k \in (n + 1)..MaxCalls : v[k]}

abs(n) == IF n < 0 THEN -n ELSE n

\* What callers ask place_order for: kind, limit price, stop price.
Prices == {4500}
OptionalPrices == {None} \cup {Some(p) : p \in Prices}
\* What place_order is asked for: one symbol is bought and the other sold,
\* in every quantity and kind, with and without each price.
AllRequests ==
    {q \in [symbol : Symbols, side : Sides, quantity : Quantities,
            order_type : OrderTypes, price : OptionalPrices,
            stop_price : OptionalPrices] :
        (q.symbol = "ESH5") <=> (q.side = "BUY")}
\* The requests whose orders the model keeps in the Order Book.
Requests ==
    {[symbol |-> "ESH5", side |-> "BUY", quantity |-> MaxContracts + 1,
      order_type |-> "LIMIT", price |-> Some(4500), stop_price |-> None],
     [symbol |-> "NQH5", side |-> "SELL", quantity |-> 1,
      order_type |-> "MARKET", price |-> None, stop_price |-> None]}

\* The positions the venue reports: one symbol short above the cap or flat,
\* the other long below the cap or flat.
VenuePositions ==
    {[symbol |-> "ESH5", quantity |-> -(MaxContracts + 1)],
     [symbol |-> "ESH5", quantity |-> 0],
     [symbol |-> "NQH5", quantity |-> 1],
     [symbol |-> "NQH5", quantity |-> 0]}
\* What the venue answers get_positions with: no, one or two positions.
VenueAnswers ==
    {<<>>} \cup {<<p>> : p \in VenuePositions}
           \cup {a \in VenuePositions \X VenuePositions :
                    a[1].symbol = "ESH5" /\ a[2].symbol = "NQH5"}
\* What the venue answers get_positions with: the positions and whether the
\* call succeeds (a failed call carries no positions).
PositionReplies ==
    {a \in VenueAnswers \X Outcomes(1) : a[2][1] \/ a[1] = <<>>}
\* What the venue answers get_account_info and the get_positions inside it
\* with: the daily PnL, the positions, and which of the two calls succeed (a
\* failed call carries no data; get_positions is reached only past a
\* successful account query).
AccountReplies ==
    {a \in PnlValues \X VenueAnswers \X Outcomes(2) :
        /\ a[3][1] \/ (a[3][2] /\ a[1] = 0)
        /\ (a[3][1] /\ a[3][2]) \/ a[2] = <<>>}

\* What POST /signals/execute is asked for.  A stop_loss of 0.0 is a float
\* that Python treats as false.
SignalTypes == {"LONG", "SHORT", "EXIT", "HOLD"}
StopPrices == {None, Some(0), Some(4500)}
\* A LONG is asked for one symbol and a SHORT for the other, each in every
\* quantity and with every stop.
AllSignals ==
    {s \in [signal_type : SignalTypes, symbol : Symbols,
            contracts : Quantities, stop_loss : StopPrices] :
        /\ s.signal_type = "LONG" => s.symbol = "ESH5"
        /\ s.signal_type = "SHORT" => s.symbol = "NQH5"}
\* The signals whose orders the model keeps in the Order Book.
Signals ==
    {[signal_type |-> "LONG", symbol |-> "ESH5",
      contracts |-> MaxContracts + 1, stop_loss |-> Some(4500)],
     [signal_type |-> "SHORT", symbol |-> "NQH5", contracts |-> 1,
      stop_loss |-> None],
     [signal_type |-> "EXIT", symbol |-> "ESH5", contracts |-> 1,
      stop_loss |-> None],
     [signal_type |-> "HOLD", symbol |-> "ESH5", contracts |-> 1,
      stop_loss |-> None]}

\* The event categories of self._callbacks, and those the service publishes.
Events ==
    {"market_data", "order_update", "position_update", "connection_status"}
PublishedEvents == {"market_data", "order_update", "connection_status"}
\* The observers: "ws" returns normally, "bad" raises, "once" unregisters
\* itself (or is unregistered by its owner) while it is being called.
Observers == {"ws", "bad", "once"}
Behaviour(callback) ==
    CASE callback = "bad" -> "raises"
      [] callback = "once" -> "unregisters"
      [] OTHER -> "returns"

\* Market data pushes of the venue: dicts that carry all, or only some, of
\* the keys _handle_market_data reads.
Pushes ==
    {[symbol |-> "ESH5", last_trade_price |-> 4500, best_bid_price |-> 4499,
      best_ask_price |-> 4501, best_bid_size |-> 10, best_ask_size |-> 12,
      volume |-> 1000, high_price |-> 4510, low_price |-> 4490,
      open_price |-> 4495],
     [symbol |-> "ESH5", last_trade_price |-> 4501],
     [symbol |-> "NQH5", best_bid_price |-> 15999, best_ask_price |-> 16001]}
\* datetime.now() at the time of a push.
Times == {1}
\* The keys of the market data cache: data.get("symbol", "").
CacheKeys == Symbols \cup {""}

(***************************************************************************)
(* The context an operation runs in: the TradingClient's fields, then what *)
(* the caller and the Broker Link observe of the operation.                *)
(*   calls   the Broker Link calls made, in order                          *)
(*   raised  the operation raised RuntimeError("Not connected to Rithmic") *)
(*   ok      the boolean it returned (place_order: an Order, not None)     *)
(*   order   the order_id of the Order place_order returned, 0 for None    *)
(*   http    the status code of the HTTP response, 0 outside the API       *)
(*   trace   what the client methods called inside a composite operation   *)
(*           returned: [fn, arg, ok], in order                             *)
(*   value   the list or the Optional a query returned                     *)
(*   published  the events handed to _notify_callbacks: [event, data]      *)
(*   delivered  the observer calls made: [event, data, callback]           *)
(*   tasks   the background tasks started with asyncio.create_task         *)
(***************************************************************************)
Begin ==
    [client |-> client, connected |-> connected,
     trading_enabled |-> trading_enabled, daily_pnl |-> daily_pnl,
     orders |-> orders, positions |-> positions,
     market_data |-> market_data, callbacks |-> callbacks,
     account_info |-> account_info, pending |-> pending,
     calls |-> <<>>, raised |-> FALSE, ok |-> FALSE, order |-> 0,
     http |-> 0, trace |-> <<>>, value |-> <<>>, published |-> <<>>,
     delivered |-> <<>>, tasks |-> <<>>]

Raise(c) == [c EXCEPT !.raised = TRUE, !.ok = FALSE, !.order = 0]
ReturnBool(c, b) == [c EXCEPT !.ok = b, !.order = 0]
ReturnOrder(c, id) == [c EXCEPT !.ok = (id # 0), !.order = id]

\* A return whose value the model records in the trace.
Traced(c, fn, arg) ==
    [c EXCEPT !.trace = Append(@, [fn |-> fn, arg |-> arg, ok |-> c.ok])]

\* One call to the Broker Link; the venue's answer to it is v[Len(calls)].
BrokerCall(c, call) == [c EXCEPT !.calls = Append(@, call)]
Acked(c, v) == v[Len(c.calls)]

(***************************************************************************)
(* Callbacks and events.  self._callbacks[event] is a list of callables:   *)
(* here a sequence of observers, in registration order.                    *)
(***************************************************************************)
\* list.remove(x): removes the first occurrence.
Remove(list, x) ==
    LET i == CHOOSE k \in DOMAIN list :
                 list[k] = x /\ \A j \in 1..(k - 1) : list[j] # x
    IN SubSeq(list, 1, i - 1) \o SubSeq(list, i + 1, Len(list))

on(c, event, callback) ==
    IF event \in DOMAIN c.callbacks
    THEN [c EXCEPT !.callbacks[event] = Append(@, callback)]
    ELSE c

off(c, event, callback) ==
    IF /\ event \in DOMAIN c.callbacks
       /\ \E k \in DOMAIN c.callbacks[event] : c.callbacks[event][k] = callback
    THEN [c EXCEPT !.callbacks[event] = Remove(@, callback)]
    ELSE c

\* Mutant: a callback's exception leaves _notify_callbacks.
Propagates_Exception(callback) == Behaviour(callback) = "raises"

\* try: callback(data) / except Exception as e: logger.error(...): the
\* exception of a callback never leaves the loop.
Propagates(callback) == FALSE

\* for callback in self._callbacks.get(event, []): the list iterator holds
\* an index into the live list and stops when the index reaches its length.
RECURSIVE Dispatch(_, _, _, _)
Dispatch(c, event, data, i) ==
    IF i > Len(c.callbacks[event]) THEN c
    ELSE LET callback == c.callbacks[event][i]
             c1 == [c EXCEPT !.delivered =
                       Append(@, [event |-> event, data |-> data,
                                  callback |-> callback])]
             c2 == IF Behaviour(callback) = "unregisters"
                   THEN off(c1, event, callback)
                   ELSE c1
         IN IF Propagates(callback) THEN Raise(c2)
            ELSE Dispatch(c2, event, data, i + 1)

notify_callbacks(c, event, data) ==
    LET c1 == [c EXCEPT !.published =
                  Append(@, [event |-> event, data |-> data])]
    IN IF event \in DOMAIN c1.callbacks THEN Dispatch(c1, event, data, 1)
       ELSE c1

(***************************************************************************)
(* Order management.                                                       *)
(***************************************************************************)
\* side="B" if side == OrderSide.BUY else "S"
VenueSide(side) == IF side = "BUY" THEN "B" ELSE "S"

\* order_type_map.get(order_type, RithmicOrderType.MARKET)
order_type_map(order_type) ==
    CASE order_type = "MARKET" -> "MARKET"
      [] order_type = "LIMIT" -> "LIMIT"
      [] order_type = "STOP" -> "STOP_MARKET"
      [] order_type = "STOP_LIMIT" -> "STOP_LIMIT"
      [] OTHER -> "MARKET"

\* Mutant: the connection test looks at the client handle, which outlives
\* a disconnect.
NotConnected_ClientHandle(c) == ~c.client

\* if not self._connected: raise RuntimeError("Not connected to Rithmic")
NotConnected(c) == ~c.connected

\* Mutant: the enable flag is not consulted.
TradingDisabled_Ignored(c) == FALSE

\* if not self._trading_enabled: return None
TradingDisabled(c) == ~c.trading_enabled

\* Mutant: the quantity is passed on as asked.
ClampQuantity_Unclamped(quantity) == quantity

\* The quantity cap: an order above max_contracts is cut down to it.
ClampQuantity(quantity) ==
    IF quantity > MaxContracts THEN MaxContracts ELSE quantity

\* Mutant: the loss check never fires.
LossLimitReached_Never(pnl) == FALSE

\* Mutant: a daily PnL at the cap already counts as a breach.
LossLimitReached_AtCap(pnl) == pnl <= -MaxDailyLoss

\* The daily loss check.
LossLimitReached(pnl) == pnl < -MaxDailyLoss

SubmitCall(symbol, side, quantity, order_type, price, stop_price) ==
    [op |-> "submit_order", symbol |-> symbol, exchange |-> "CME",
     side |-> VenueSide(side), quantity |-> quantity,
     order_type |-> order_type_map(order_type),
     price |-> price, stop_price |-> stop_price]

\* Mutant: the order is recorded before the venue has it.
NewOrder_Pending(id, symbol, side, quantity, order_type, price, stop_price) ==
    [order_id |-> id, symbol |-> symbol, side |-> side, quantity |-> quantity,
     order_type |-> order_type, price |-> price, stop_price |-> stop_price,
     status |-> "PENDING", filled_quantity |-> 0]

\* Mutant: a new order counts as filled beyond its quantity.
NewOrder_Overfilled(id, symbol, side, quantity, order_type, price, stop_price) ==
    [order_id |-> id, symbol |-> symbol, side |-> side, quantity |-> quantity,
     order_type |-> order_type, price |-> price, stop_price |-> stop_price,
     status |-> "SUBMITTED", filled_quantity |-> quantity + 1]

\* Order(...): the venue numbers the orders it acknowledges 1, 2, ...
NewOrder(id, symbol, side, quantity, order_type, price, stop_price) ==
    [order_id |-> id, symbol |-> symbol, side |-> side, quantity |-> quantity,
     order_type |-> order_type, price |-> price, stop_price |-> stop_price,
     status |-> "SUBMITTED", filled_quantity |-> 0]

\* Mutant: the except clause lets the error out.
SubmitFailure_Raises(c) == Raise(c)

\* except Exception as e: logger.error(...); return None
SubmitFailure(c) == ReturnOrder([c EXCEPT !.raised = FALSE], 0)

\* The local variables of a place_order call that waits at
\* "await self._client.submit_order(...)".
Suspended(symbol, side, quantity, order_type, price, stop_price) ==
    [symbol |-> symbol, side |-> side, quantity |-> quantity,
     order_type |-> order_type, price |-> price, stop_price |-> stop_price]

\* place_order up to the await: the checks, then the submit call goes out
\* and the call is suspended.
place_order_submit(c, symbol, side, quantity, order_type, price, stop_price) ==
    IF NotConnected(c) THEN Raise(c)
    ELSE IF TradingDisabled(c) THEN ReturnOrder(c, 0)
    ELSE LET q == ClampQuantity(quantity) IN
         IF LossLimitReached(c.daily_pnl)
         THEN ReturnOrder([c EXCEPT !.trading_enabled = FALSE], 0)
         ELSE [BrokerCall(c, SubmitCall(symbol, side, q, order_type, price,
                                        stop_price))
                 EXCEPT !.pending =
                    Append(@, Suspended(symbol, side, q, order_type, price,
                                        stop_price))]

\* place_order from the await on: the k-th suspended call gets the venue's
\* answer.
place_order_resume(c, k, acked) ==
    LET a == c.pending[k]
        c1 == [c EXCEPT !.pending = SubSeq(@, 1, k - 1)
                                      \o SubSeq(@, k + 1, Len(@))]
        id == Len(c.orders) + 1
        order == NewOrder(id, a.symbol, a.side, a.quantity, a.order_type,
                          a.price, a.stop_price)
        c2 == [c1 EXCEPT !.orders = Append(@, order)]
        \* the notification is inside the try block
        c3 == notify_callbacks(c2, "order_update", order)
    IN IF ~acked THEN SubmitFailure(c1)
       ELSE IF c3.raised THEN SubmitFailure(c3)
       ELSE ReturnOrder(c3, id)

\* A place_order call that nothing interleaves with.
place_order(c, symbol, side, quantity, order_type, price, stop_price, v) ==
    LET s == place_order_submit(c, symbol, side, quantity, order_type, price,
                                stop_price)
    IN IF Len(s.pending) = Len(c.pending) THEN s
       ELSE place_order_resume(s, Len(s.pending), Acked(s, v))

\* Mutant: a cancelled order goes back to PENDING.
CancelledStatus_Pending(status) == "PENDING"

\* The status cancel_order leaves on an order of the book.
CancelledStatus(status) == "CANCELLED"

cancel_order(c, order_id, v) ==
    IF NotConnected(c) THEN Raise(c)
    ELSE LET c1 == BrokerCall(c, [op |-> "cancel_order", order_id |-> order_id])
         IN IF ~Acked(c1, v) THEN ReturnBool(c1, FALSE)
            ELSE IF order_id \in DOMAIN c1.orders
                 THEN ReturnBool(
                        [c1 EXCEPT !.orders[order_id].status =
                            CancelledStatus(@)], TRUE)
                 ELSE ReturnBool(c1, TRUE)

\* Mutant: only orders not yet submitted are marked.
CancelAllStatuses_PendingOnly == {"PENDING"}

\* The statuses cancel_all_orders turns into CANCELLED.
CancelAllStatuses == {"PENDING", "SUBMITTED"}

cancel_all_orders(c, v) ==
    IF NotConnected(c) THEN Raise(c)
    ELSE LET c1 == BrokerCall(c, [op |-> "cancel_all_orders"])
         IN IF ~Acked(c1, v)
            THEN Traced(ReturnBool(c1, FALSE), "cancel_all_orders", "")
            ELSE Traced(ReturnBool(
                   [c1 EXCEPT !.orders =
                      [i \in DOMAIN @ |->
                         IF @[i].status \in CancelAllStatuses
                         THEN [@[i] EXCEPT !.status = "CANCELLED"]
                         ELSE @[i]]], TRUE), "cancel_all_orders", "")

OpenStatuses == {"PENDING", "SUBMITTED", "PARTIALLY_FILLED"}
get_open_orders(os) == {i \in DOMAIN os : os[i].status \in OpenStatuses}

(***************************************************************************)
(* Position management.  The ledger self._positions is a dict keyed by     *)
(* symbol: here a sequence of positions with distinct symbols, in the      *)
(* dict's insertion order.                                                 *)
(***************************************************************************)
HasPosition(ps, symbol) == \E i \in DOMAIN ps : ps[i].symbol = symbol
PositionOf(ps, symbol) == ps[CHOOSE i \in DOMAIN ps : ps[i].symbol = symbol]
LedgerSymbols(ps) == [i \in DOMAIN ps |-> ps[i].symbol]

\* self._positions[position.symbol] = position
LedgerPut(ps, pos) ==
    IF HasPosition(ps, pos.symbol)
    THEN [i \in DOMAIN ps |-> IF ps[i].symbol = pos.symbol THEN pos ELSE ps[i]]
    ELSE Append(ps, pos)

RECURSIVE LedgerFrom(_, _)
LedgerFrom(ps, answer) ==
    IF answer = <<>> THEN ps
    ELSE LedgerFrom(LedgerPut(ps, Head(answer)), Tail(answer))

\* return list(self._positions.values())
ReturnLedger(c) == [c EXCEPT !.value = c.positions]

\* Mutant: the answer is merged into the ledger that is already there.
get_positions_Merged(c, answer, v) ==
    IF ~c.connected THEN ReturnLedger(c)
    ELSE LET c1 == BrokerCall(c, [op |-> "get_positions"])
         IN IF ~Acked(c1, v) THEN ReturnLedger(c1)
            ELSE ReturnLedger(
                   [c1 EXCEPT !.positions = LedgerFrom(@, answer)])

get_positions(c, answer, v) ==
    IF ~c.connected THEN ReturnLedger(c)
    ELSE LET c1 == BrokerCall(c, [op |-> "get_positions"])
         IN IF ~Acked(c1, v) THEN ReturnLedger(c1)
            ELSE ReturnLedger(
                   [c1 EXCEPT !.positions = LedgerFrom(<<>>, answer)])

\* Mutant: a zero-quantity position is closed like any other.
IsFlat_Never(position) == FALSE

\* if position.quantity == 0: return True
IsFlat(position) == position.quantity = 0

\* The side of the order that closes a position of this quantity.
ClosingSide(quantity) == IF quantity > 0 THEN "SELL" ELSE "BUY"

close_position(c, symbol, v) ==
    IF ~HasPosition(c.positions, symbol)
    THEN Traced(ReturnBool(c, FALSE), "close_position", symbol)
    ELSE LET position == PositionOf(c.positions, symbol) IN
         IF IsFlat(position)
         THEN Traced(ReturnBool(c, TRUE), "close_position", symbol)
         ELSE LET r == place_order(c, symbol, ClosingSide(position.quantity),
                                   abs(position.quantity), "MARKET", None,
                                   None, v)
              IN IF r.raised THEN r
                 ELSE Traced(ReturnBool(r, r.order # 0), "close_position",
                             symbol)

\* Mutant: the loop stops at the first close that fails.
RECURSIVE CloseEach_FailFast(_, _, _, _)
CloseEach_FailFast(c, symbols, success, v) ==
    IF symbols = <<>> \/ ~success THEN ReturnBool(c, success)
    ELSE LET r == close_position(c, Head(symbols), v)
         IN IF r.raised THEN r
            ELSE CloseEach_FailFast(r, Tail(symbols), success /\ r.ok, v)

\* for symbol in list(self._positions.keys()):
\*     if not await self.close_position(symbol): success = False
RECURSIVE CloseEach(_, _, _, _)
CloseEach(c, symbols, success, v) ==
    IF symbols = <<>> THEN ReturnBool(c, success)
    ELSE LET r == close_position(c, Head(symbols), v)
         IN IF r.raised THEN r
            ELSE CloseEach(r, Tail(symbols), success /\ r.ok, v)

close_all_positions(c, v) ==
    LET r == CloseEach(c, LedgerSymbols(c.positions), TRUE, v)
    IN IF r.raised THEN r ELSE Traced(r, "close_all_positions", "")

(***************************************************************************)
(* Account information.                                                    *)
(***************************************************************************)
\* Mutant: the snapshot misses the venue's daily PnL and holds the default.
AccountInfo_DefaultPnl(account_pnl) == [daily_pnl |-> 0]

\* AccountInfo(...): the snapshot, built from the venue's answer alone.  Of
\* its fields the model keeps daily_pnl.
AccountInfo(account_pnl) == [daily_pnl |-> account_pnl]

\* return self._account_info
ReturnSnapshot(c) == [c EXCEPT !.value = c.account_info]

get_account_info(c, account_pnl, answer, v) ==
    IF ~c.connected THEN ReturnSnapshot(c)
    ELSE LET c1 == BrokerCall(c, [op |-> "get_account_info"])
         IN IF ~Acked(c1, v) THEN ReturnSnapshot(c1)
            ELSE LET c2 == get_positions(c1, answer, v)
                     info == AccountInfo(account_pnl)
                 IN ReturnSnapshot([c2 EXCEPT !.account_info = Some(info),
                                              !.daily_pnl = info.daily_pnl])

(***************************************************************************)
(* Trading controls.                                                       *)
(***************************************************************************)
\* Mutant: enabling also forgets the day's loss.
enable_trading_ForgetsLoss(c) ==
    [c EXCEPT !.trading_enabled = TRUE, !.daily_pnl = 0]

enable_trading(c) == [c EXCEPT !.trading_enabled = TRUE]
disable_trading(c) == [c EXCEPT !.trading_enabled = FALSE]
reset_daily_stats(c) == [c EXCEPT !.daily_pnl = 0, !.trading_enabled = TRUE]

(***************************************************************************)
(* Connection.                                                             *)
(***************************************************************************)
\* The data of the connection_status events.
ConnectedEvent == [connected |-> TRUE]
ConnectFailedEvent == [connected |-> FALSE, error |-> "venue error"]
DisconnectedEvent == [connected |-> FALSE]

\* asyncio.create_task(self._heartbeat_loop())
create_task(c, task) == [c EXCEPT !.tasks = Append(@, task)]

\* One turn of "while self._connected: await asyncio.sleep(30)": the k-th
\* background task wakes up, and ends iff the flag is off.
heartbeat_loop(c, k) ==
    IF c.connected THEN c
    ELSE [c EXCEPT !.tasks = SubSeq(@, 1, k - 1) \o SubSeq(@, k + 1, Len(@))]

\* Mutant: a failed attempt leaves the flag as it was.
ConnectFailed_Stale(c) == c

\* except Exception as e: self._connected = False
ConnectFailed(c) == [c EXCEPT !.connected = FALSE]

\* imported: whether "from async_rithmic import ..." succeeds; v[1]: whether
\* the session is established.
connect(c, v, imported) ==
    IF ~imported THEN ReturnBool(c, FALSE)
    ELSE LET c1 == BrokerCall([c EXCEPT !.client = TRUE], [op |-> "connect"])
         IN IF Acked(c1, v)
            THEN ReturnBool(
                   create_task(
                     notify_callbacks([c1 EXCEPT !.connected = TRUE],
                                      "connection_status", ConnectedEvent),
                     "_heartbeat_loop"),
                   TRUE)
            ELSE ReturnBool(
                   notify_callbacks(ConnectFailed(c1), "connection_status",
                                    ConnectFailedEvent),
                   FALSE)

\* Mutant: the session's orders are forgotten with the session.
Disconnected_ClearsBook(c) == [c EXCEPT !.connected = FALSE, !.orders = <<>>]

\* finally: self._connected = False
Disconnected(c) == [c EXCEPT !.connected = FALSE]

\* The venue's answer to the disconnect call is logged and otherwise
\* ignored: the finally clause runs either way.
disconnect(c) ==
    IF ~c.client THEN c
    ELSE notify_callbacks(
           Disconnected(BrokerCall(c, [op |-> "disconnect"])),
           "connection_status", DisconnectedEvent)

(***************************************************************************)
(* Market data.  self._market_data is a dict keyed by symbol: here a       *)
(* function that is None where the dict has no entry.                      *)
(***************************************************************************)
\* data.get(key, default)
Get(data, key, default) == IF key \in DOMAIN data THEN data[key] ELSE default

\* Mutant: bid and ask are read from each other's key.
MarketDataOf_Crossed(data, now) ==
    [symbol |-> Get(data, "symbol", ""),
     last_price |-> Get(data, "last_trade_price", 0),
     bid |-> Get(data, "best_ask_price", 0),
     ask |-> Get(data, "best_bid_price", 0),
     bid_size |-> Get(data, "best_bid_size", 0),
     ask_size |-> Get(data, "best_ask_size", 0),
     volume |-> Get(data, "volume", 0),
     high |-> Get(data, "high_price", 0),
     low |-> Get(data, "low_price", 0),
     open |-> Get(data, "open_price", 0),
     timestamp |-> now]

\* MarketData(symbol=..., last_price=..., ..., timestamp=datetime.now())
MarketDataOf(data, now) ==
    [symbol |-> Get(data, "symbol", ""),
     last_price |-> Get(data, "last_trade_price", 0),
     bid |-> Get(data, "best_bid_price", 0),
     ask |-> Get(data, "best_ask_price", 0),
     bid_size |-> Get(data, "best_bid_size", 0),
     ask_size |-> Get(data, "best_ask_size", 0),
     volume |-> Get(data, "volume", 0),
     high |-> Get(data, "high_price", 0),
     low |-> Get(data, "low_price", 0),
     open |-> Get(data, "open_price", 0),
     timestamp |-> now]

handle_market_data(c, data, now) ==
    LET md == MarketDataOf(data, now)
    IN notify_callbacks([c EXCEPT !.market_data[md.symbol] = Some(md)],
                        "market_data", md)

\* self._market_data.get(symbol)
get_market_data(c, symbol) ==
    IF symbol \in DOMAIN c.market_data THEN c.market_data[symbol] ELSE None

(***************************************************************************)
(* The API endpoints of api.py that add logic of their own.                *)
(***************************************************************************)
Http(c, status) == [c EXCEPT !.http = status]

\* POST /orders
api_place_order(c, symbol, side, quantity, order_type, price, stop_price, v) ==
    IF ~c.connected THEN Http(c, 503)
    ELSE IF ~c.trading_enabled THEN Http(c, 403)
    ELSE LET r == place_order(c, symbol, side, quantity, order_type, price,
                              stop_price, v)
         IN IF ~r.raised /\ r.order # 0 THEN Http(r, 200)
            \* HTTPException(400) is raised inside the try block and caught
            \* by its "except Exception", which answers 500
            ELSE Http([r EXCEPT !.raised = FALSE], 500)

\* "if signal.stop_loss": None and 0.0 are false.
Truthy(optional) == optional # None /\ optional[1] # 0

EntrySide(signal_type) == IF signal_type = "LONG" THEN "BUY" ELSE "SELL"

\* Mutant: the protective order is on the entry's side.
StopSide_AsEntry(signal_type) == EntrySide(signal_type)

StopSide(signal_type) == IF signal_type = "LONG" THEN "SELL" ELSE "BUY"

\* POST /signals/execute
execute_signal(c, signal, v) ==
    IF ~c.connected THEN Http(c, 503)
    ELSE IF ~c.trading_enabled THEN Http(c, 403)
    ELSE IF signal.signal_type \in {"LONG", "SHORT"}
    THEN LET entry == place_order(c, signal.symbol,
                                  EntrySide(signal.signal_type),
                                  signal.contracts, "MARKET", None, None, v)
             stop == place_order(entry, signal.symbol,
                                 StopSide(signal.signal_type),
                                 signal.contracts, "STOP", None,
                                 signal.stop_loss, v)
         IN IF entry.raised THEN Http([entry EXCEPT !.raised = FALSE], 500)
            ELSE IF Truthy(signal.stop_loss) /\ entry.order # 0
            THEN IF stop.raised THEN Http([stop EXCEPT !.raised = FALSE], 500)
                 ELSE Http(ReturnBool(stop, TRUE), 200)
            ELSE Http(ReturnBool(entry, TRUE), 200)
    ELSE IF signal.signal_type = "EXIT"
    THEN LET c1 == close_position(c, signal.symbol, v)
             c2 == cancel_all_orders(c1, v)
         IN IF c1.raised THEN Http([c1 EXCEPT !.raised = FALSE], 500)
            ELSE IF c2.raised THEN Http([c2 EXCEPT !.raised = FALSE], 500)
            ELSE Http(ReturnBool(c2, TRUE), 200)
    \* HTTPException(400, "Unknown signal type") is raised inside the try
    \* block and caught by its "except Exception", which answers 500
    ELSE Http(ReturnBool(c, FALSE), 500)

\* POST /controls/emergency-stop
emergency_stop(c, v) ==
    LET c1 == disable_trading(c)
        c2 == cancel_all_orders(c1, v)
        c3 == close_all_positions(c2, v)
    IN IF c2.raised THEN Http(c2, 500)
       ELSE IF c3.raised THEN Http(c3, 500)
       ELSE Http(ReturnBool(c3, TRUE), 200)

(***************************************************************************)
(* The state machine.  Init is TradingClient.__init__; each action is one  *)
(* call of a client method or of an API endpoint, run to completion.       *)
(***************************************************************************)
Init ==
    /\ client = FALSE
    /\ connected = FALSE
    /\ trading_enabled = TRUE
    /\ daily_pnl = 0
    /\ orders = <<>>
    /\ positions = <<>>
    /\ market_data = [symbol \in CacheKeys |-> None]
    /\ callbacks = [event \in Events |-> <<>>]
    /\ account_info = None
    /\ pending = <<>>

\* The operation's result becomes the state.
Done(r) ==
    /\ Len(r.orders) <= MaxOrders
    /\ client' = r.client
    /\ connected' = r.connected
    /\ trading_enabled' = r.trading_enabled
    /\ daily_pnl' = r.daily_pnl
    /\ orders' = r.orders
    /\ positions' = r.positions
    /\ market_data' = r.market_data
    /\ callbacks' = r.callbacks
    /\ account_info' = r.account_info
    /\ pending' = r.pending

Connect ==
    \E v \in Outcomes(1), imported \in BOOLEAN :
        Done(connect(Begin, v, imported))

Disconnect == Done(disconnect(Begin))

PlaceOrder ==
    \E q \in Requests, v \in Outcomes(1) :
        Done(place_order(Begin, q.symbol, q.side, q.quantity, q.order_type,
                         q.price, q.stop_price, v))

ApiPlaceOrder ==
    \E q \in Requests, v \in Outcomes(1) :
        Done(api_place_order(Begin, q.symbol, q.side, q.quantity,
                             q.order_type, q.price, q.stop_price, v))

CancelOrder ==
    \E order_id \in 1..(MaxOrders + 1), v \in Outcomes(1) :
        Done(cancel_order(Begin, order_id, v))

CancelAllOrders == \E v \in Outcomes(1) : Done(cancel_all_orders(Begin, v))

GetPositions ==
    \E a \in PositionReplies : Done(get_positions(Begin, a[1], a[2]))

ClosePosition ==
    \E symbol \in Symbols, v \in Outcomes(1) :
        Done(close_position(Begin, symbol, v))

CloseAllPositions ==
    \E v \in Outcomes(2) : Done(close_all_positions(Begin, v))

GetAccountInfo ==
    \E a \in AccountReplies : Done(get_account_info(Begin, a[1], a[2], a[3]))

EnableTrading == Done(enable_trading(Begin))

DisableTrading == Done(disable_trading(Begin))

ResetDailyStats == Done(reset_daily_stats(Begin))

EmergencyStop == \E v \in VenueOutcomes : Done(emergency_stop(Begin, v))

ExecuteSignal ==
    \E signal \in Signals, v \in Outcomes(2) :
        Done(execute_signal(Begin, signal, v))

\* The number of observers registered, over all events.
Registered(cbs) == Len(cbs["market_data"]) + Len(cbs["order_update"])
                   + Len(cbs["position_update"])
                   + Len(cbs["connection_status"])

On ==
    \E event \in PublishedEvents, callback \in Observers :
        /\ Registered(callbacks) < MaxObservers
        /\ Done(on(Begin, event, callback))

Off ==
    \E event \in PublishedEvents, callback \in Observers :
        Done(off(Begin, event, callback))

\* The venue pushes market data to the callback of subscribe_market_data.
HandleMarketData ==
    \E data \in Pushes, now \in Times :
        Done(handle_market_data(Begin, data, now))

Next ==
    \/ Connect
    \/ Disconnect
    \/ PlaceOrder
    \/ ApiPlaceOrder
    \/ CancelOrder
    \/ CancelAllOrders
    \/ GetPositions
    \/ ClosePosition
    \/ CloseAllPositions
    \/ GetAccountInfo
    \/ EnableTrading
    \/ DisableTrading
    \/ ResetDailyStats
    \/ EmergencyStop
    \/ ExecuteSignal

Spec == Init /\ [][Next]_vars

\* The event bus: observers come and go while the publishing operations
\* run.
NextBus ==
    \/ On
    \/ Off
    \/ HandleMarketData
    \/ Connect
    \/ Disconnect
    \/ PlaceOrder

SpecBus == Init /\ [][NextBus]_vars

\* The RiskState and its writers: the client methods that are not composed
\* of other client methods.
NextRisk ==
    \/ Connect
    \/ Disconnect
    \/ PlaceOrder
    \/ CancelOrder
    \/ CancelAllOrders
    \/ GetPositions
    \/ GetAccountInfo
    \/ EnableTrading
    \/ DisableTrading
    \/ ResetDailyStats

SpecRisk == Init /\ [][NextRisk]_vars

\* place_order awaits the venue's answer to submit_order; while it waits the
\* event loop runs other handlers.
SubmitOrder ==
    \E q \in Requests :
        /\ Len(pending) < MaxPending
        /\ Done(place_order_submit(Begin, q.symbol, q.side, q.quantity,
                                   q.order_type, q.price, q.stop_price))

\* The venue answers a submit_order and the call that waited for it goes on.
ResumeOrder ==
    \E k \in DOMAIN pending, acked \in BOOLEAN :
        Done(place_order_resume(Begin, k, acked))

\* Orders in flight while the trading controls are used.
NextAsync ==
    \/ Connect
    \/ Disconnect
    \/ SubmitOrder
    \/ ResumeOrder
    \/ CancelAllOrders
    \/ EnableTrading
    \/ DisableTrading
    \/ EmergencyStop

SpecAsync == Init /\ [][NextAsync]_vars

(***************************************************************************)
(* Properties.  r is the result of an operation started in the current     *)
(* state; a property quantifies over the operation's inputs and over the   *)
(* Broker Link's answers.                                                  *)
(***************************************************************************)
ProgramState(c) ==
    <<c.client, c.connected, c.trading_enabled, c.daily_pnl, c.orders,
      c.positions, c.market_data, c.callbacks, c.account_info, c.pending>>
Unchanged(r) == ProgramState(r) = ProgramState(Begin)

IsSubmit(call) == call.op = "submit_order"
SubmitCalls(r) == SelectSeq(r.calls, IsSubmit)
NonFlat(ps) == {i \in DOMAIN ps : ps[i].quantity # 0}
Ack == [k \in 1..MaxCalls |-> TRUE]

PlaceOrderOf(q, v) ==
    place_order(Begin, q.symbol, q.side, q.quantity, q.order_type, q.price,
                q.stop_price, v)
ApiPlaceOrderOf(q, v) ==
    api_place_order(Begin, q.symbol, q.side, q.quantity, q.order_type,
                    q.price, q.stop_price, v)

\* C1: a place_order call made while connected, enabled, with the daily PnL
\* not below -max_daily_loss and the Broker Link accepting: a quantity above
\* max_contracts is submitted and recorded as exactly max_contracts, the order
\* comes back SUBMITTED; and every order of the Order Book has
\* quantity <= max_contracts.
C1_QuantityClamped ==
    /\ (connected /\ trading_enabled /\ daily_pnl >= -MaxDailyLoss)
       => \A q \in AllRequests :
         LET r == PlaceOrderOf(q, Ack) IN
         q.quantity > MaxContracts
         => /\ ~r.raised /\ r.order # 0
            /\ Len(r.calls) = 1
            /\ r.calls[1].op = "submit_order"
            /\ r.calls[1].quantity = MaxContracts
            /\ Len(r.orders) = Len(orders) + 1
            /\ r.orders[r.order].quantity = MaxContracts
            /\ r.orders[r.order].status = "SUBMITTED"
    /\ \A i \in DOMAIN orders : orders[i].quantity <= MaxContracts

\* C1 witness: an over-cap LIMIT request (only place_order records LIMIT
\* orders) is in the book at max_contracts, and a further over-cap request
\* would be clamped again.
C1_Witness ==
    /\ connected /\ trading_enabled /\ daily_pnl >= -MaxDailyLoss
    /\ \E i \in DOMAIN orders :
         /\ orders[i].order_type = "LIMIT"
         /\ orders[i].quantity = MaxContracts
         /\ orders[i].status = "SUBMITTED"
    /\ \E q \in Requests :
         /\ q.quantity > MaxContracts
         /\ PlaceOrderOf(q, Ack).order = Len(orders) + 1

\* C2 (as stated): once the daily PnL is below -max_daily_loss and trading is
\* disabled, trading stays disabled until reset_daily_stats is issued.
C2_DisabledUntilReset ==
    [][(/\ daily_pnl < -MaxDailyLoss /\ ~trading_enabled
        /\ ~ResetDailyStats)
       => ~trading_enabled']_vars

\* A place_order call that finds the daily PnL below the cap submits nothing
\* and leaves trading disabled.
C2_BreachDisables ==
    (connected /\ trading_enabled /\ daily_pnl < -MaxDailyLoss)
    => \A q \in AllRequests, v \in Outcomes(1) :
        LET r == PlaceOrderOf(q, v) IN
           /\ ~r.trading_enabled /\ r.order = 0 /\ ~r.raised
           /\ r.calls = <<>> /\ r.orders = orders
           /\ r.daily_pnl = daily_pnl

\* C2 (amended): a place_order call that finds the daily PnL below
\* -max_daily_loss disables trading and submits nothing; and trading goes from
\* disabled to enabled only by enable_trading or reset_daily_stats, whatever
\* account refreshes, order attempts and other commands happen.
C2_DisabledUntilEnableOrReset ==
    /\ []C2_BreachDisables
    /\ [][(~trading_enabled /\ trading_enabled')
          => (EnableTrading \/ ResetDailyStats)]_vars

\* C2 witness: an account refresh has put the daily PnL past the cap while
\* trading is still enabled and an order is in the book; the next place_order
\* disables trading.
C2_Witness ==
    /\ connected /\ trading_enabled /\ daily_pnl < -MaxDailyLoss
    /\ orders # <<>>
    /\ \E q \in Requests : ~PlaceOrderOf(q, Ack).trading_enabled

\* C3: connected with trading disabled, place_order returns no order, calls
\* the Broker Link not at all, adds nothing to the Order Book, and does not
\* report NotConnected: the client does not raise and POST /orders answers
\* 403, not 503.
C3_DisabledIsNotNotConnected ==
    (connected /\ ~trading_enabled)
    => \A q \in AllRequests, v \in Outcomes(1) :
         LET r == PlaceOrderOf(q, v)
             a == ApiPlaceOrderOf(q, v)
         IN /\ r.order = 0 /\ ~r.ok /\ ~r.raised
            /\ r.calls = <<>> /\ r.orders = orders
            /\ a.http = 403 /\ a.calls = <<>> /\ a.orders = orders

\* C3 witness: connected, disabled by hand (the loss cap is not breached),
\* with an order in the book.
C3_Witness ==
    /\ connected /\ ~trading_enabled /\ daily_pnl >= -MaxDailyLoss
    /\ orders # <<>>
    /\ \E q \in Requests : PlaceOrderOf(q, Ack).order = 0

\* C4: disconnected, place_order, cancel_order and cancel_all_orders each
\* raise the NotConnected error, with trading enabled or not, call the Broker
\* Link not at all and leave the Order Book, the Position Ledger and the
\* RiskState as they were.
C4_NotConnectedRaises ==
    ~connected
    => /\ \A q \in AllRequests, v \in Outcomes(1) :
            LET r == PlaceOrderOf(q, v)
            IN r.raised /\ r.calls = <<>> /\ Unchanged(r)
       /\ \A order_id \in 1..(MaxOrders + 1), v \in Outcomes(1) :
            LET r == cancel_order(Begin, order_id, v)
            IN r.raised /\ r.calls = <<>> /\ Unchanged(r)
       /\ \A v \in Outcomes(1) :
            LET r == cancel_all_orders(Begin, v)
            IN r.raised /\ r.calls = <<>> /\ Unchanged(r)

\* C4 witness: disconnected after a session that left open orders and
\* positions behind, with trading disabled.
C4_Witness ==
    /\ ~connected /\ client /\ ~trading_enabled
    /\ get_open_orders(orders) # {}
    /\ positions # <<>>
    /\ cancel_all_orders(Begin, Ack).raised

(***************************************************************************)
(* Cancelling, closing and the emergency stop.                             *)
(***************************************************************************)
TerminalStatuses == {"FILLED", "REJECTED", "CANCELLED"}

\* The close_position returns recorded in a composite operation's trace.
IsClose(e) == e.fn = "close_position"
Closes(r) == SelectSeq(r.trace, IsClose)

\* What a step of a composite operation returned.
StepOk(r, fn) == \E k \in DOMAIN r.trace : r.trace[k].fn = fn /\ r.trace[k].ok

\* The non-flat positions of the ledger, in ledger order.
IsOpenPosition(p) == p.quantity # 0
OpenPositions(ps) == SelectSeq(ps, IsOpenPosition)

RiskGateOpen == trading_enabled /\ daily_pnl >= -MaxDailyLoss

\* C5 (as stated): cancel_order on an order whose status is FILLED, REJECTED
\* or CANCELLED returns failure and leaves the order's status as it was,
\* whatever the Broker Link answers to the cancel call.
C5_TerminalCancelFails ==
    \A order_id \in DOMAIN orders, v \in Outcomes(1) :
        orders[order_id].status \in TerminalStatuses
        => LET r == cancel_order(Begin, order_id, v)
           IN /\ ~r.ok
              /\ r.orders[order_id].status = orders[order_id].status

\* C6 (as stated): emergency_stop on a connected client leaves trading
\* disabled, calls cancel-all on the Broker Link first, whatever it answers,
\* then attempts a close for every ledger symbol, and the close step submits
\* one MARKET order on the opposite side for each non-flat position.
C6_StopCancelsThenCloses ==
    connected
    => \A v \in VenueOutcomes :
         LET r == emergency_stop(Begin, v)
             open == OpenPositions(positions)
             submits == SubmitCalls(r)
         IN /\ ~r.trading_enabled
            /\ r.calls # <<>>
            /\ r.calls[1].op = "cancel_all_orders"
            /\ \A k \in 2..Len(r.calls) : IsSubmit(r.calls[k])
            /\ LedgerSymbols(positions) =
                   [k \in DOMAIN Closes(r) |-> Closes(r)[k].arg]
            /\ Len(submits) = Len(open)
            /\ \A k \in DOMAIN submits :
                  /\ submits[k].symbol = open[k].symbol
                  /\ submits[k].order_type = "MARKET"
                  /\ submits[k].side =
                        (IF open[k].quantity > 0 THEN "S" ELSE "B")

\* C7 (as stated): emergency_stop reports success exactly when its
\* cancel_all_orders step and its close_all_positions step both returned
\* success, and failure when either did not.
C7_StopReportsBothSteps ==
    \A v \in VenueOutcomes :
        LET r == emergency_stop(Begin, v)
        IN (r.http = 200 /\ r.ok)
           <=> (StepOk(r, "cancel_all_orders")
                /\ StepOk(r, "close_all_positions"))

\* C8 (as stated): close_all_positions calls close_position for every symbol
\* of the ledger, also after a close that failed, the Broker Link receives as
\* many submit calls as there are non-flat positions, and the result is true
\* exactly when every close_position returned true.
C8_CloseAllSubmitsPerOpenPosition ==
    \A v \in Outcomes(2) :
        LET r == close_all_positions(Begin, v)
        IN /\ ~r.raised
           /\ LedgerSymbols(positions) =
                  [k \in DOMAIN Closes(r) |-> Closes(r)[k].arg]
           /\ Len(SubmitCalls(r)) = Len(OpenPositions(positions))
           /\ r.ok <=> \A k \in DOMAIN Closes(r) : Closes(r)[k].ok

\* C8 (amended): on a connected client close_all_positions calls
\* close_position for every symbol of the ledger, in ledger order, also after
\* a close that failed, and returns true exactly when every close_position
\* returned true; the Broker Link receives one submit call per non-flat
\* position when trading is enabled and the daily PnL is not below
\* -max_daily_loss, and no call at all otherwise.
C8_CloseAllAttemptsEverySymbol ==
    connected
    => \A v \in Outcomes(2) :
         LET r == close_all_positions(Begin, v)
         IN /\ ~r.raised
            /\ LedgerSymbols(positions) =
                   [k \in DOMAIN Closes(r) |-> Closes(r)[k].arg]
            /\ r.ok <=> \A k \in DOMAIN Closes(r) : Closes(r)[k].ok
            /\ RiskGateOpen
               => /\ Len(r.calls) = Len(OpenPositions(positions))
                  /\ \A k \in DOMAIN r.calls :
                        /\ IsSubmit(r.calls[k])
                        /\ r.calls[k].symbol =
                              OpenPositions(positions)[k].symbol
            /\ ~RiskGateOpen => r.calls = <<>>

\* C8 witness: two non-flat positions, the gate open; the Broker Link refuses
\* the first closing order and close_all_positions still submits the second,
\* records it, and returns false.
C8_Witness ==
    /\ connected /\ RiskGateOpen
    /\ Len(OpenPositions(positions)) = 2
    /\ Len(orders) < MaxOrders
    /\ \E v \in Outcomes(2) :
         LET r == close_all_positions(Begin, v)
         IN /\ ~v[1] /\ v[2]
            /\ Len(r.calls) = 2
            /\ Len(r.orders) = Len(orders) + 1
            /\ r.orders[Len(r.orders)].symbol = positions[2].symbol
            /\ ~r.ok

\* C9 (as stated): close_position returns success, calls the Broker Link not
\* at all and changes no state when the symbol's position has quantity zero
\* and when the symbol has no entry in the ledger.
C9_FlatOrAbsentSucceeds ==
    \A symbol \in Symbols, v \in Outcomes(1) :
        LET r == close_position(Begin, symbol, v)
        IN (\/ ~HasPosition(positions, symbol)
            \/ PositionOf(positions, symbol).quantity = 0)
           => r.ok /\ ~r.raised /\ r.calls = <<>> /\ Unchanged(r)

\* C9 (amended): close_position calls the Broker Link not at all and changes
\* no state, connected or not, when the symbol's position has quantity zero,
\* where it returns success, and when the symbol has no entry in the ledger,
\* where it returns failure.
C9_FlatSucceedsAbsentFails ==
    \A symbol \in Symbols, v \in Outcomes(1) :
        LET r == close_position(Begin, symbol, v)
        IN /\ (/\ HasPosition(positions, symbol)
               /\ PositionOf(positions, symbol).quantity = 0)
              => r.ok /\ ~r.raised /\ r.calls = <<>> /\ Unchanged(r)
           /\ ~HasPosition(positions, symbol)
              => ~r.ok /\ ~r.raised /\ r.calls = <<>> /\ Unchanged(r)

\* C9 witness: connected with the gate open, one symbol flat in the ledger
\* and the other absent from it; closing the first succeeds, closing the
\* second fails.
C9_Witness ==
    /\ connected /\ RiskGateOpen
    /\ \E flat \in Symbols, absent \in Symbols :
         /\ HasPosition(positions, flat)
         /\ PositionOf(positions, flat).quantity = 0
         /\ ~HasPosition(positions, absent)
         /\ close_position(Begin, flat, Ack).ok
         /\ ~close_position(Begin, absent, Ack).ok

\* C10 (as stated): on a connected, enabled client close_position of a
\* non-flat position of quantity q makes exactly one Broker Link call, a
\* submit of a MARKET order, SELL if q > 0 and BUY if q < 0, of quantity |q|,
\* also when |q| is above max_contracts.
C10_CloseSubmitsWholePosition ==
    (connected /\ trading_enabled)
    => \A i \in NonFlat(positions), v \in Outcomes(1) :
         LET q == positions[i].quantity
             r == close_position(Begin, positions[i].symbol, v)
         IN /\ Len(r.calls) = 1
            /\ IsSubmit(r.calls[1])
            /\ r.calls[1].symbol = positions[i].symbol
            /\ r.calls[1].order_type = "MARKET"
            /\ r.calls[1].side = (IF q > 0 THEN "S" ELSE "B")
            /\ r.calls[1].quantity = abs(q)

(***************************************************************************)
(* Signals.                                                                *)
(***************************************************************************)
EntrySignals == {s \in AllSignals : s.signal_type \in {"LONG", "SHORT"}}

\* The entry order of a signal, as the Broker Link receives it.
IsEntryCall(call, s) ==
    /\ IsSubmit(call)
    /\ call.symbol = s.symbol
    /\ call.order_type = "MARKET"
    /\ call.side = (IF s.signal_type = "LONG" THEN "B" ELSE "S")

\* The protective order of a signal, as the Broker Link receives it.
IsStopCall(call, s, entry) ==
    /\ IsSubmit(call)
    /\ call.symbol = s.symbol
    /\ call.order_type = "STOP_MARKET"
    /\ call.side = (IF s.signal_type = "LONG" THEN "S" ELSE "B")
    /\ call.quantity = entry.quantity
    /\ call.stop_price = s.stop_loss

ExitSignal(symbol) ==
    [signal_type |-> "EXIT", symbol |-> symbol, contracts |-> 1,
     stop_loss |-> None]

\* C12 (as stated): with the risk checks passing and the Broker Link
\* acknowledging, execute_signal EXIT for a symbol with a non-flat position
\* submits one MARKET order on the opposite side for the position's whole
\* quantity, and every order that was open before the call is CANCELLED
\* after it, however many there were.
C12_ExitClosesAndCancels ==
    (connected /\ RiskGateOpen)
    => \A i \in NonFlat(positions) :
         LET q == positions[i].quantity
             r == execute_signal(Begin, ExitSignal(positions[i].symbol), Ack)
             submits == SubmitCalls(r)
         IN /\ r.http = 200
            /\ Len(submits) = 1
            /\ submits[1].symbol = positions[i].symbol
            /\ submits[1].order_type = "MARKET"
            /\ submits[1].side = (IF q > 0 THEN "S" ELSE "B")
            /\ submits[1].quantity = abs(q)
            /\ \A id \in get_open_orders(orders) :
                  r.orders[id].status = "CANCELLED"

\* C13 (as stated): on a connected, enabled client execute_signal with a
\* signal type other than LONG, SHORT and EXIT answers the rejected-input
\* status 400 of "Unknown signal type", not the 500 of an internal or venue
\* failure, calls the Broker Link not at all and changes no state.
C13_UnknownSignalRejected ==
    (connected /\ trading_enabled)
    => \A s \in AllSignals, v \in Outcomes(2) :
         s.signal_type \notin {"LONG", "SHORT", "EXIT"}
         => LET r == execute_signal(Begin, s, v)
            IN r.http = 400 /\ r.calls = <<>> /\ Unchanged(r)

(***************************************************************************)
(* The outcome of place_order and its order_update event.                  *)
(***************************************************************************)
\* The Broker Link refuses the first call of an operation.
Nack == [k \in 1..MaxCalls |-> k # 1]

\* C14: when place_order passes the risk checks and the Broker Link
\* acknowledges the submission, the Order Book gains exactly one entry, under
\* the identifier of the returned order, SUBMITTED, with the request's symbol,
\* side and kind and the clamped quantity; the entries it had are untouched;
\* exactly one order_update event, carrying that order, is published, and the
\* first registered observer of order_update receives it.
C14_AckedOrderRecordedAndPublished ==
    (connected /\ RiskGateOpen)
    => \A q \in AllRequests :
         LET r == PlaceOrderOf(q, Ack)
             new == r.orders[r.order]
         IN /\ ~r.raised /\ r.ok
            /\ r.order \in DOMAIN r.orders /\ r.order \notin DOMAIN orders
            /\ Len(r.orders) = Len(orders) + 1
            /\ \A i \in DOMAIN orders : r.orders[i] = orders[i]
            /\ new.order_id = r.order
            /\ new.status = "SUBMITTED"
            /\ new.symbol = q.symbol /\ new.side = q.side
            /\ new.order_type = q.order_type
            /\ new.quantity = (IF q.quantity > MaxContracts THEN MaxContracts
                               ELSE q.quantity)
            /\ r.published = <<[event |-> "order_update", data |-> new]>>
            /\ callbacks["order_update"] # <<>>
               => /\ r.delivered # <<>>
                  /\ r.delivered[1] =
                       [event |-> "order_update", data |-> new,
                        callback |-> callbacks["order_update"][1]]

\* C14 witness: two observers of order_update are registered, an order is in
\* the book, and the next acknowledged order reaches an observer.
C14_Witness ==
    /\ connected /\ RiskGateOpen
    /\ Len(callbacks["order_update"]) = 2
    /\ orders # <<>>
    /\ \E q \in Requests :
         LET r == PlaceOrderOf(q, Ack)
         IN r.order = Len(orders) + 1 /\ r.delivered # <<>>

\* C15: when the Broker Link's submit call fails, place_order returns no
\* order and does not raise, publishes no event and calls no observer, and
\* the Order Book is as it was: no new open entry.
C15_FailedSubmitLeavesNoOrder ==
    (connected /\ RiskGateOpen)
    => \A q \in AllRequests :
         LET r == PlaceOrderOf(q, Nack)
         IN /\ ~r.raised /\ r.order = 0 /\ ~r.ok
            /\ Len(r.calls) = 1 /\ IsSubmit(r.calls[1])
            /\ r.published = <<>> /\ r.delivered = <<>>
            /\ get_open_orders(r.orders) = get_open_orders(orders)
            /\ Unchanged(r)

\* C15 witness: an observer of order_update is registered, an order is in
\* the book, and the Broker Link refuses the next submission.
C15_Witness ==
    /\ connected /\ RiskGateOpen
    /\ callbacks["order_update"] # <<>>
    /\ get_open_orders(orders) # {}
    /\ \E q \in Requests :
         LET r == PlaceOrderOf(q, Nack)
         IN Len(r.calls) = 1 /\ r.order = 0

C17_LedgerReplacedWholesale ==
    \A a \in VenueAnswers :
        LET r == get_positions(Begin, a, Ack)
            f == get_positions(Begin, a, Nack)
        IN /\ ~r.raised /\ ~f.raised
           /\ connected
              => /\ Len(r.positions) = Len(a)
                 /\ {r.positions[i].symbol : i \in DOMAIN r.positions}
                      = {a[i].symbol : i \in DOMAIN a}
                 /\ \A i \in DOMAIN a :
                      PositionOf(r.positions, a[i].symbol) = a[i]
                 /\ r.value = r.positions
                 /\ f.positions = positions /\ f.value = positions
                 /\ Len(f.calls) = 1
           /\ ~connected
              => /\ r.positions = positions /\ r.value = positions
                 /\ r.calls = <<>>

\* C17 witness: the ledger holds two symbols and the venue answers with one
\* position only; the refresh drops the other symbol.
C17_Witness ==
    /\ connected
    /\ Len(positions) = 2
    /\ \E a \in VenueAnswers :
         /\ Len(a) = 1
         /\ a[1] # positions[1] /\ a[1].symbol = positions[1].symbol
         /\ get_positions(Begin, a, Ack).positions = a

(***************************************************************************)
(* The market data cache.                                                  *)
(***************************************************************************)
\* The fields of a cache entry and the keys of a push they are read from.
PushedFields ==
    {<<"last_price", "last_trade_price">>, <<"bid", "best_bid_price">>,
     <<"ask", "best_ask_price">>, <<"bid_size", "best_bid_size">>,
     <<"ask_size", "best_ask_size">>, <<"volume", "volume">>,
     <<"high", "high_price">>, <<"low", "low_price">>,
     <<"open", "open_price">>}

\* C18: after a market-data push for symbol X, get_market_data(X) returns
\* an entry with exactly the pushed values (0 for a value the push does not
\* carry) and the time of the push, whatever entry X had before; the entries
\* of the other symbols, and everything else but the observer lists, are as
\* they were; ingestion does not raise and publishes one market_data event
\* carrying the entry.
C18_PushThenReadRoundTrip ==
    \A data \in Pushes, now \in Times :
        LET r == handle_market_data(Begin, data, now)
            got == get_market_data(r, data.symbol)
        IN /\ ~r.raised
           /\ got # None
           /\ got[1].symbol = data.symbol
           /\ got[1].timestamp = now
           /\ \A f \in PushedFields :
                 got[1][f[1]] = (IF f[2] \in DOMAIN data THEN data[f[2]] ELSE 0)
           /\ \A x \in CacheKeys \ {data.symbol} :
                 /\ r.market_data[x] = market_data[x]
                 /\ get_market_data(r, x) = market_data[x]
           /\ r.orders = orders /\ r.positions = positions
           /\ r.connected = connected /\ r.daily_pnl = daily_pnl
           /\ r.trading_enabled = trading_enabled
           /\ r.published = <<[event |-> "market_data", data |-> got[1]]>>

\* C18 witness: both symbols have an entry, and a push for one of them
\* replaces its entry by different values while the other's stays.
C18_Witness ==
    /\ market_data["ESH5"] # None /\ market_data["NQH5"] # None
    /\ \E data \in Pushes, now \in Times :
         LET r == handle_market_data(Begin, data, now)
         IN /\ data.symbol = "ESH5"
            /\ get_market_data(r, "ESH5")[1].last_price
                 # market_data["ESH5"][1].last_price
            /\ get_market_data(r, "NQH5") = market_data["NQH5"]

(***************************************************************************)
(* The event bus.                                                          *)
(***************************************************************************)
Fails(callback) == Behaviour(callback) = "raises"
Leaves(callback) == Behaviour(callback) = "unregisters"
Healthy(callback) == ~Fails(callback)
ToHealthy(delivery) == Healthy(delivery.callback)

\* The current state with the failing observers taken off every list.
Quiet ==
    [Begin EXCEPT !.callbacks =
        [event \in Events |-> SelectSeq(callbacks[event], Healthy)]]

\* The operation gave its caller, the Broker Link, the program state and the
\* healthy observers the same as the operation run without failing observers.
SameOutcome(r, r0) ==
    /\ r.raised = r0.raised /\ r.ok = r0.ok /\ r.order = r0.order
    /\ r.calls = r0.calls /\ r.published = r0.published
    /\ r.tasks = r0.tasks
    /\ r.client = r0.client /\ r.connected = r0.connected
    /\ r.trading_enabled = r0.trading_enabled /\ r.daily_pnl = r0.daily_pnl
    /\ r.orders = r0.orders /\ r.positions = r0.positions
    /\ r.market_data = r0.market_data
    /\ SelectSeq(r.delivered, ToHealthy) = r0.delivered

\* C19: when an event is published to observers of which at least one
\* raises, the others staying registered, every registered observer of the
\* category is called exactly once per registration, in registration order,
\* with the event, and the call does not raise; and place_order, market-data
\* ingestion, connect and disconnect end as they do without the failing
\* observers: same result, same Broker Link calls, same state, same events,
\* same calls of the other observers.
C19_FailingObserverIsolated ==
    \A event \in PublishedEvents :
        LET list == callbacks[event]
        IN (/\ \E k \in DOMAIN list : Fails(list[k])
            /\ \A k \in DOMAIN list : ~Leaves(list[k]))
           => /\ LET r == notify_callbacks(Begin, event, event)
                 IN /\ ~r.raised
                    /\ r.callbacks = callbacks
                    /\ r.delivered =
                         [k \in DOMAIN list |->
                            [event |-> event, data |-> event,
                             callback |-> list[k]]]
              /\ event = "order_update"
                 => \A q \in Requests, v \in Outcomes(1) :
                      SameOutcome(
                        PlaceOrderOf(q, v),
                        place_order(Quiet, q.symbol, q.side, q.quantity,
                                    q.order_type, q.price, q.stop_price, v))
              /\ event = "market_data"
                 => \A data \in Pushes, now \in Times :
                      SameOutcome(handle_market_data(Begin, data, now),
                                  handle_market_data(Quiet, data, now))
              /\ event = "connection_status"
                 => /\ \A v \in Outcomes(1), imported \in BOOLEAN :
                         SameOutcome(connect(Begin, v, imported),
                                     connect(Quiet, v, imported))
                    /\ SameOutcome(disconnect(Begin), disconnect(Quiet))

\* C19 witness: connected, an order in the book, and order_update observed
\* by a failing observer followed by a healthy one; the next order reaches
\* the healthy observer after the failing one and is returned.
C19_Witness ==
    /\ connected /\ RiskGateOpen /\ orders # <<>>
    /\ callbacks["order_update"] = <<"bad", "ws">>
    /\ \E q \in Requests :
         LET r == PlaceOrderOf(q, Ack)
         IN /\ r.order # 0
            /\ Len(r.delivered) = 2
            /\ r.delivered[1].callback = "bad"
            /\ r.delivered[2].callback = "ws"

\* C20 (as stated): when observers are unregistered while an event of their
\* category is being dispatched, every observer that stays registered for
\* the category is called exactly once per registration for that event.
C20_UnregisterDuringDispatch ==
    \A event \in PublishedEvents :
        LET r == notify_callbacks(Begin, event, event)
            list == callbacks[event]
        IN \A callback \in Observers :
             ~Leaves(callback)
             => Cardinality({k \in DOMAIN r.delivered :
                               r.delivered[k].callback = callback})
                = Cardinality({k \in DOMAIN list : list[k] = callback})

LacksPrice(q) ==
    \/ q.order_type \in {"LIMIT", "STOP_LIMIT"} /\ q.price = None
    \/ q.order_type \in {"STOP", "STOP_LIMIT"} /\ q.stop_price = None

\* C22 (as stated): a place_order of kind LIMIT or STOP_LIMIT without a limit
\* price, or of kind STOP or STOP_LIMIT without a stop price, fails (no
\* order is returned) and submits nothing; so every LIMIT or STOP_LIMIT order of the
\* Order Book has a price and every STOP or STOP_LIMIT order a stop price.
C22_MissingPriceRejected ==
    /\ (connected /\ RiskGateOpen)
       => \A q \in AllRequests, v \in Outcomes(1) :
            LacksPrice(q)
            => LET r == PlaceOrderOf(q, v)
               IN r.order = 0 /\ r.calls = <<>> /\ r.orders = orders
    /\ \A i \in DOMAIN orders : ~LacksPrice(orders[i])

\* The status changes of an Order Book entry.
StatusEdges ==
    {<<"PENDING", "SUBMITTED">>, <<"PENDING", "CANCELLED">>,
     <<"SUBMITTED", "FILLED">>, <<"SUBMITTED", "PARTIALLY_FILLED">>,
     <<"SUBMITTED", "CANCELLED">>, <<"SUBMITTED", "REJECTED">>,
     <<"PARTIALLY_FILLED", "FILLED">>, <<"PARTIALLY_FILLED", "CANCELLED">>}

C25_LivenessTaskEndsWithDisconnect ==
    LET c1 == connect(Begin, Ack, TRUE)
        c2 == disconnect(c1)
        c3 == connect(c2, Ack, TRUE)
    IN /\ Len(c1.tasks) = 1
       /\ heartbeat_loop(c2, 1).tasks = <<>>
       /\ Len(heartbeat_loop(c3, 1).tasks) <= 1

\* The event disconnect publishes.
DisconnectPublished ==
    <<[event |-> "connection_status", data |-> DisconnectedEvent]>>

\* What disconnect leaves alone: the Order Book, the Position Ledger, the
\* Market Data Cache and the RiskState.
DisconnectFrame(r) ==
    /\ r.orders = orders /\ r.positions = positions
    /\ r.market_data = market_data
    /\ r.trading_enabled = trading_enabled /\ r.daily_pnl = daily_pnl

\* C26 (as stated): disconnect sets connected to false and publishes a
\* connection_status event, whatever the Broker Link answers, and leaves the
\* Order Book, the Position Ledger, the Market Data Cache and the RiskState
\* as they were.
C26_DisconnectPublishes ==
    LET r == disconnect(Begin)
    IN /\ ~r.connected /\ ~r.raised
       /\ r.published = DisconnectPublished
       /\ DisconnectFrame(r)

\* C26 (amended): on a client that holds a Broker Link handle (a connect got
\* as far as creating it), disconnect calls the Broker Link once, sets
\* connected to false and publishes one connection_status event, whatever
\* the Broker Link answers; on a client without a handle it calls and
\* publishes nothing; either way connected is false afterwards and the Order
\* Book, the Position Ledger, the Market Data Cache and the RiskState are as
\* they were.
C26_DisconnectWithHandlePublishes ==
    LET r == disconnect(Begin)
    IN /\ ~r.connected /\ ~r.raised
       /\ DisconnectFrame(r)
       /\ r.account_info = account_info /\ r.callbacks = callbacks
       /\ IF client
          THEN /\ r.published = DisconnectPublished
               /\ r.calls = <<[op |-> "disconnect"]>>
          ELSE r.published = <<>> /\ r.calls = <<>>

\* C26 witness: connected with an open order, a position, a daily PnL and
\* trading disabled; disconnect publishes its event.
C26_Witness ==
    /\ client /\ connected /\ ~trading_enabled /\ daily_pnl # 0
    /\ get_open_orders(orders) # {} /\ positions # <<>>
    /\ disconnect(Begin).published = DisconnectPublished
    /\ ~disconnect(Begin).connected

(***************************************************************************)
(* The RiskState and its writers.                                          *)
(***************************************************************************)
\* C27: a place_order call never changes the daily PnL (the caps are fixed
\* by the configuration), never turns trading-enabled from false to true,
\* and turns it from true to false only when the daily PnL is below
\* -max_daily_loss; where the Risk Gate allows or clamps the order (enabled,
\* daily PnL not below the cap) the RiskState is as it was, whatever the
\* Broker Link answers.
C27_RiskGateFrame ==
    \A q \in AllRequests, v \in Outcomes(1) :
        LET r == PlaceOrderOf(q, v)
        IN /\ r.daily_pnl = daily_pnl
           /\ ~trading_enabled => ~r.trading_enabled
           /\ (trading_enabled /\ ~r.trading_enabled)
              => (connected /\ daily_pnl < -MaxDailyLoss)
           /\ RiskGateOpen => r.trading_enabled

\* C27 witness: connected and enabled with the daily PnL below the cap; the
\* next place_order disables trading and leaves the daily PnL alone.
C27_Witness ==
    /\ connected /\ trading_enabled /\ daily_pnl < -MaxDailyLoss
    /\ orders # <<>>
    /\ \E q \in Requests :
         LET r == PlaceOrderOf(q, Ack)
         IN ~r.trading_enabled /\ r.daily_pnl = daily_pnl

\* C28: get_account_info, connected and answered by the venue, replaces the
\* cached snapshot by one built from the answer, sets the daily PnL to the
\* answer's and returns the new snapshot; disconnected, or when the query
\* fails, it returns the cached snapshot without raising and leaves the
\* snapshot and the daily PnL as they were.  A step that changes the daily
\* PnL is an answered get_account_info or a reset_daily_stats.
C28_AccountRefresh ==
    /\ [](\A a \in AccountReplies :
            LET r == get_account_info(Begin, a[1], a[2], a[3])
            IN /\ ~r.raised
               /\ r.value = r.account_info
               /\ IF connected /\ a[3][1]
                  THEN /\ r.account_info = Some([daily_pnl |-> a[1]])
                       /\ r.daily_pnl = a[1]
                  ELSE /\ r.account_info = account_info
                       /\ r.daily_pnl = daily_pnl)
    /\ [][daily_pnl' # daily_pnl
          => \/ ResetDailyStats
             \/ /\ connected
                /\ \E a \in AccountReplies :
                     /\ a[3][1]
                     /\ daily_pnl' = a[1]
                     /\ Done(get_account_info(Begin, a[1], a[2], a[3]))]_vars

\* C28 witness: disconnected after a refresh that cached a breach and a
\* reset of the daily PnL; get_account_info returns the cached snapshot,
\* which still carries the breach, and the daily PnL stays reset.
C28_Witness ==
    /\ client /\ ~connected /\ daily_pnl = 0
    /\ account_info = Some([daily_pnl |-> -(MaxDailyLoss + 1)])
    /\ \A a \in AccountReplies :
         LET r == get_account_info(Begin, a[1], a[2], a[3])
         IN r.value = account_info /\ r.daily_pnl = 0

\* C29: a place_order that finds trading disabled or the daily PnL below
\* -max_daily_loss makes no Broker Link call and records no order; when
\* enable_trading has re-enabled trading while the daily PnL is still below
\* the cap, the next place_order submits nothing and disables trading
\* again.
C29_NoSubmitPastClosedGate ==
    (~trading_enabled \/ daily_pnl < -MaxDailyLoss)
    => \A q \in AllRequests, v \in Outcomes(1) :
         LET r == PlaceOrderOf(q, v)
             e == place_order(enable_trading(Begin), q.symbol, q.side,
                              q.quantity, q.order_type, q.price,
                              q.stop_price, v)
         IN /\ r.calls = <<>> /\ r.order = 0 /\ r.orders = orders
            /\ (connected /\ daily_pnl < -MaxDailyLoss)
               => /\ e.calls = <<>> /\ e.order = 0 /\ e.orders = orders
                  /\ ~e.trading_enabled /\ ~e.raised

\* C29 witness: connected, trading disabled by the loss check and the daily
\* PnL still below the cap; enable_trading opens the flag and the next
\* place_order closes it again without a call.
C29_Witness ==
    /\ connected /\ ~trading_enabled /\ daily_pnl < -MaxDailyLoss
    /\ enable_trading(Begin).trading_enabled
    /\ \E q \in Requests :
         LET e == place_order(enable_trading(Begin), q.symbol, q.side,
                              q.quantity, q.order_type, q.price,
                              q.stop_price, Ack)
         IN e.calls = <<>> /\ ~e.trading_enabled

(***************************************************************************)
(* Orders in flight.                                                       *)
(***************************************************************************)
\* C30 (as stated): no order is added to the Order Book while trading is
\* disabled, also not by a place_order call that passed the Risk Gate and
\* was waiting for the Broker Link when trading was disabled; so while
\* trading stays disabled an Order Book without open orders, as a successful
\* cancel-all of emergency_stop leaves it, gets no open order.
C30_NoOrderAddedWhileDisabled ==
    [][/\ Len(orders') > Len(orders) => trading_enabled
       /\ (~trading_enabled /\ ~trading_enabled'
             /\ get_open_orders(orders) = {})
          => get_open_orders(orders') = {}]_vars

(***************************************************************************)
(* What execute_signal leaves behind and what it reports.                  *)
(***************************************************************************)
\* C31 (as stated): when execute_signal EXIT for a symbol with a non-flat
\* position returns with the Broker Link having accepted both the closing
\* order and the cancel-all, the closing MARKET order it recorded in the
\* Order Book is still SUBMITTED, not CANCELLED.
C31_ExitKeepsClosingOrder ==
    (connected /\ RiskGateOpen)
    => \A i \in NonFlat(positions) :
         LET r == execute_signal(Begin, ExitSignal(positions[i].symbol), Ack)
             id == Len(orders) + 1
         IN /\ r.http = 200
            /\ Len(r.orders) = id
            /\ r.orders[id].symbol = positions[i].symbol
            /\ r.orders[id].order_type = "MARKET"
            /\ r.orders[id].status = "SUBMITTED"

\* C32 (as stated): execute_signal LONG or SHORT answers success only if the
\* entry order was accepted and recorded in the Order Book: when the entry
\* place_order yields no order, because the Risk Gate rejects it or the
\* Broker Link fails, the answer is not a success.
C32_EntrySuccessMeansRecorded ==
    (connected /\ trading_enabled)
    => \A s \in EntrySignals, v \in Outcomes(2) :
         LET r == execute_signal(Begin, s, v)
             entry == place_order(Begin, s.symbol, EntrySide(s.signal_type),
                                  s.contracts, "MARKET", None, None, v)
         IN r.http = 200
            => /\ entry.order # 0
               /\ Len(r.orders) > Len(orders)
               /\ r.orders[Len(orders) + 1].symbol = s.symbol
               /\ r.orders[Len(orders) + 1].order_type = "MARKET"

====
